---- MODULE Spec2Model ----
(***************************************************************************)
(* Negotiation and deal lifecycle of the marketplace backend               *)
(* (market/views.py: NegotiationViewSet, DealViewSet, BlockViewSet).       *)
(*                                                                         *)
(* The database tables are the variables negs, rounds, deals and blocks.   *)
(* Every HTTP request runs in a request context (a worker); a handler is   *)
(* a sequence of database statements, and the statements of two requests   *)
(* interleave.  One step of a worker is one database statement together    *)
(* with the in-memory checks that follow it, or one transaction.atomic()   *)
(* block's commit.  A model instance obtained by get_object() is a copy of *)
(* the row at the time of the query (the field snap of the request).       *)
(*                                                                         *)
(* transaction.atomic() makes the writes of a block visible together, or   *)
(* not at all when the block raises.  It does not isolate the block: the   *)
(* queries take no lock (no select_for_update) and the models declare no   *)
(* uniqueness over negotiations, so under the default isolation levels of  *)
(* PostgreSQL and MySQL two blocks may both read before either commits.    *)
(*                                                                         *)
(* Prices are fixed-point amounts, modelled as non-negative integers.      *)
(* created_at of OfferRound is taken to be strictly increasing in          *)
(* insertion order, so the last element of rounds[n] is                    *)
(* order_by("-created_at").first().  Requests address rows that exist; the *)
(* product catalog does not change.                                        *)
(***************************************************************************)
EXTENDS Integers, Sequences, FiniteSets, TLC

\* ---------------------------------------------------------------- bounds
\* Negotiation and block requests that pass their checks and write, over a
\* whole run.
MaxOps == 3

\* ------------------------------------------------------------ environment
Workers == {"w1", "w2"}
Users == {"u1", "u2", "u3"}
NoneVal == "None"

\* Product rows (the catalog is owned by ProductViewSet and is read-only
\* here): p1 is u1's active listing with a price floor, p2 is inactive, p3 is
\* u1's active listing without a floor (min_offer_price is the default 0).
Products == {"p1", "p2", "p3"}
ProductSeller == [p \in Products |-> "u1"]
ProductIsActive == [p \in Products |-> p # "p2"]
ProductMinOfferPrice == [p \in Products |-> IF p = "p3" THEN 0 ELSE 1]

\* request.data values; a price is <<p>>, a missing price (None) is <<>>.
\* The prices sent are below, at and above p1's floor.
PriceInputs == {<<>>} \cup {<<p>> : p \in 0..2}
\* The (product, price) pairs of start requests: a missing product, a missing
\* price, the inactive product, p1 below and at its floor, p3 at price 0.
\* Prices above the floor come with the offers that follow.
StartInputs == {<<NoneVal, <<1>>>>, <<"p1", <<>>>>, <<"p2", <<1>>>>,
                <<"p1", <<0>>>>, <<"p1", <<1>>>>, <<"p3", <<0>>>>}

\* Block rows the users create in this model: u3 and u1 block each other.
BlockInputs == {<<"u1", "u3">>, <<"u3", "u1">>}

\* Negotiation.Status
OPEN == "open"
ACCEPTED == "accepted"
REJECTED == "rejected"
CANCELED == "canceled"
NegotiationStatus == {OPEN, ACCEPTED, REJECTED, CANCELED}

\* Deal.Status
PENDING == "pending"
DealStatus == {"pending", "paid", "shipped", "completed", "canceled"}
StatusInputs == DealStatus \cup {NoneVal, "bogus"}

\* negs, rounds, deals, blocks: the tables Negotiation, OfferRound (grouped
\* by negotiation, in created_at order), Deal and Block.  A deal's from_neg
\* is a history field (the negotiation whose accept created it); the Deal
\* model has no such column.
\* req: each request context's position and local variables.
\* nops: the number of requests that have passed their checks.
VARIABLES negs, rounds, deals, blocks, req, nops

vars == <<negs, rounds, deals, blocks, req, nops>>

\* ---------------------------------------------------------------- helpers
NegIds == 1..Len(negs)
DealIds == 1..Len(deals)

NoSnap == [product |-> NoneVal, seller |-> NoneVal, buyer |-> NoneVal,
           status |-> NoneVal, last_offer_price |-> 0]

IdleReq == [pc |-> "idle", op |-> NoneVal, user |-> NoneVal, neg |-> 0,
            product |-> NoneVal, price |-> 0, snap |-> NoSnap,
            existing |-> 0, code |-> 0, detail |-> NoneVal, contacts |-> {}]

\* A request that has returned Response(detail, status=code).
Done(r, code, detail) ==
    [IdleReq EXCEPT !.pc = "done", !.op = r.op, !.user = r.user, !.neg = r.neg,
                    !.code = code, !.detail = detail]

NewReq(op, user, neg) == [IdleReq EXCEPT !.op = op, !.user = user, !.neg = neg]

\* A start, accept or update-status request refused by its checks: the
\* response alone is kept (the handler, the object and the error).  A
\* refused offer, reject or cancel keeps its user, whose role decides the
\* error.
Refused(r, code, detail) == Done([r EXCEPT !.user = NoneVal], code, detail)

\* An exception that leaves the view is answered with status 500.
StorageError == "database error"
SinkError == "record_event raised"

\* record_event (utils.py) runs after the handler's writes and is not guarded:
\* when AnalyticsEvent.objects.create raises, the exception leaves the view.
AfterEvent(r, sink_raises, code) ==
    IF sink_raises THEN Done(r, 500, SinkError) ELSE Done(r, code, "ok")

\* A request context takes its next request once its response is sent, and
\* the response is sent before any other statement runs.
\* The request contexts are interchangeable: a new request is handed to the
\* first one that is idle.
Free(w) ==
    /\ \A v \in Workers : req[v].pc # "done"
    /\ req[w].pc = "idle"
    /\ w = CHOOSE v \in Workers : req[v].pc = "idle"
\* No request is between its first statement and its response.  A request
\* that its first checks refuse reads the tables once and writes nothing, so
\* it commutes with the statements of a request in flight; it is taken at
\* the points where none is.  (Every content of the tables met while a
\* request is in flight is also met at such a point: a first step writes
\* nothing, and an offer between its two writes may end there.)
Quiet == \A v \in Workers : req[v].pc = "idle"

Running(w, pc) == req[w].pc = pc /\ \A v \in Workers : req[v].pc # "done"

\* Negotiation.is_party
is_party(neg, user) == user \in {neg.seller, neg.buyer}

\* _validate_min_offer with the comparison made inclusive: a price equal to
\* the floor is refused too.
validate_min_offer_inclusive(product, price) ==
    ~(ProductMinOfferPrice[product] # 0 /\ price <= ProductMinOfferPrice[product])

\* NegotiationViewSet._validate_min_offer
validate_min_offer(product, price) ==
    ~(ProductMinOfferPrice[product] # 0 /\ price < ProductMinOfferPrice[product])

\* The two Block queries of start.
is_blocked_between(a, b) == <<a, b>> \in blocks \/ <<b, a>> \in blocks

\* ------------------------------------------------------------------- init
Init ==
    /\ negs = <<>>
    /\ rounds = <<>>
    /\ deals = <<>>
    /\ blocks = {}
    /\ req = [w \in Workers |-> IdleReq]
    /\ nops = 0

\* ------------------------------------------------------------------ start
\* StartResult without the comparison of lines 291-292.
StartResultAnyBuyer(user, product, price) ==
    IF product = NoneVal \/ price = <<>> THEN <<400, "product and price required">>
    ELSE IF ~ProductIsActive[product] THEN <<404, "Product not found">>
    ELSE IF ~validate_min_offer(product, price[1]) THEN <<400, "Minimum offer">>
    ELSE IF is_blocked_between(ProductSeller[product], user)
         THEN <<403, "You cannot negotiate with this user.">>
    ELSE <<0, "pass">>

\* start, lines 279-299: the request's fields and the precondition checks.
StartResult(user, product, price) ==
    IF product = NoneVal \/ price = <<>> THEN <<400, "product and price required">>
    ELSE IF ~ProductIsActive[product] THEN <<404, "Product not found">>
    ELSE IF ProductSeller[product] = user
         THEN <<400, "You can't negotiate on your own product.">>
    ELSE IF ~validate_min_offer(product, price[1]) THEN <<400, "Minimum offer">>
    ELSE IF is_blocked_between(ProductSeller[product], user)
         THEN <<403, "You cannot negotiate with this user.">>
    ELSE <<0, "pass">>

\* StartValidate with the supersession of lines 302-309 run ahead of the
\* floor and block checks: a start refused by one of them has already
\* canceled the buyer's OPEN negotiations on the product.
StartValidateCancelsFirst(w) ==
    /\ Free(w)
    /\ \E user \in Users, inp \in StartInputs :
         LET product == inp[1]
             price == inp[2]
             res == StartResult(user, product, price)
             r == NewReq("start", user, 0)
             late == res[2] \in {"Minimum offer", "You cannot negotiate with this user."}
         IN /\ res[1] # 0 => Quiet
            /\ res[1] = 0 => nops < MaxOps
            /\ nops' = IF res[1] = 0 THEN nops + 1 ELSE nops
            /\ negs' = IF late
                       THEN [n \in 1..Len(negs) |->
                               IF /\ negs[n].product = product
                                  /\ negs[n].buyer = user
                                  /\ negs[n].status = OPEN
                               THEN [negs[n] EXCEPT !.status = CANCELED]
                               ELSE negs[n]]
                       ELSE negs
            /\ req' = [req EXCEPT ![w] =
                         IF res[1] = 0
                         THEN [r EXCEPT !.pc = "start_tx", !.product = product,
                                        !.price = price[1]]
                         ELSE Refused(r, res[1], res[2])]
    /\ UNCHANGED <<rounds, deals, blocks>>

StartValidate(w) ==
    /\ Free(w)
    /\ \E user \in Users, inp \in StartInputs :
         LET product == inp[1]
             price == inp[2]
             res == StartResult(user, product, price)
             r == NewReq("start", user, 0)
         IN /\ res[1] # 0 => Quiet
            /\ res[1] = 0 => nops < MaxOps
            /\ nops' = IF res[1] = 0 THEN nops + 1 ELSE nops
            /\ req' = [req EXCEPT ![w] =
                         IF res[1] = 0
                         THEN [r EXCEPT !.pc = "start_tx", !.product = product,
                                        !.price = price[1]]
                         ELSE Refused(r, res[1], res[2])]
    /\ UNCHANGED <<negs, rounds, deals, blocks>>

\* The OPEN negotiations of a (product, seller, buyer) triple in table ns:
\* the filter of lines 302-303.
OpenIn(ns, product, seller, buyer) ==
    {n \in 1..Len(ns) : /\ ns[n].product = product
                        /\ ns[n].seller = seller
                        /\ ns[n].buyer = buyer
                        /\ ns[n].status = OPEN}

OpenFor(product, seller, buyer) == OpenIn(negs, product, seller, buyer)

\* start, lines 302-304: the query inside the atomic block.  Negotiation has
\* no Meta.ordering, so first() orders by the (random UUID) primary key: any
\* matching row can be the first.
StartReadExisting(w) ==
    /\ Running(w, "start_tx")
    /\ LET r == req[w]
           open == OpenFor(r.product, ProductSeller[r.product], r.user)
       IN \E e \in (IF open = {} THEN {0} ELSE open) :
            req' = [req EXCEPT ![w] = [r EXCEPT !.pc = "start_commit", !.existing = e]]
    /\ UNCHANGED <<negs, rounds, deals, blocks, nops>>

\* StartCommit without the OfferRound.objects.create of lines 317-322: the
\* negotiation is stored with an empty round history.
StartCommitNoRound(w) ==
    /\ Running(w, "start_commit")
    /\ LET r == req[w]
           canceled == IF r.existing # 0
                       THEN [negs EXCEPT ![r.existing].status = CANCELED]
                       ELSE negs
           neg == [product |-> r.product, seller |-> ProductSeller[r.product],
                   buyer |-> r.user, status |-> OPEN, last_offer_price |-> r.price]
       IN /\ negs' = Append(canceled, neg)
          /\ rounds' = Append(rounds, <<>>)
          /\ \E sink_raises \in BOOLEAN :
               req' = [req EXCEPT ![w] =
                         [AfterEvent(r, sink_raises, 201) EXCEPT !.neg = Len(negs) + 1,
                                                            !.existing = r.existing]]
    /\ UNCHANGED <<deals, blocks, nops>>

\* start, lines 306-322 with the block's commit, and the response (line 331).
StartCommit(w) ==
    /\ Running(w, "start_commit")
    /\ LET r == req[w]
           canceled == IF r.existing # 0
                       THEN [negs EXCEPT ![r.existing].status = CANCELED]
                       ELSE negs
           neg == [product |-> r.product, seller |-> ProductSeller[r.product],
                   buyer |-> r.user, status |-> OPEN, last_offer_price |-> r.price]
       IN /\ negs' = Append(canceled, neg)
          /\ rounds' = Append(rounds, <<[offered_by |-> r.user, price |-> r.price]>>)
          /\ \E sink_raises \in BOOLEAN :
               req' = [req EXCEPT ![w] =
                         [AfterEvent(r, sink_raises, 201) EXCEPT !.neg = Len(negs) + 1,
                                                            !.existing = r.existing]]
    /\ UNCHANGED <<deals, blocks, nops>>

\* StartAbort with the writes outside transaction.atomic(): the error comes
\* after existing.save (line 309) and before Negotiation.objects.create, and
\* the cancellation stays.
StartAbortAfterCancel(w) ==
    /\ Running(w, "start_commit")
    /\ negs' = IF req[w].existing # 0
               THEN [negs EXCEPT ![req[w].existing].status = CANCELED]
               ELSE negs
    /\ req' = [req EXCEPT ![w] =
                 [Done(req[w], 500, StorageError) EXCEPT !.existing = req[w].existing]]
    /\ UNCHANGED <<rounds, deals, blocks, nops>>

\* A database error inside start's atomic block: the block rolls back and the
\* exception leaves the view.
StartAbort(w) ==
    /\ Running(w, "start_commit")
    /\ req' = [req EXCEPT ![w] =
                 [Done(req[w], 500, StorageError) EXCEPT !.existing = req[w].existing]]
    /\ UNCHANGED <<negs, rounds, deals, blocks, nops>>

\* ------------------------------------------------------------------ offer
\* OfferResult with the block gate of start repeated in offer.
OfferResultBlockGate(neg, user, price) ==
    IF neg.status # OPEN THEN <<400, "Negotiation is not open.">>
    ELSE IF ~is_party(neg, user) THEN <<403, "Not a party to this negotiation.">>
    ELSE IF is_blocked_between(neg.seller, neg.buyer)
         THEN <<403, "You cannot negotiate with this user.">>
    ELSE IF price = <<>> THEN <<400, "price required">>
    ELSE IF ~validate_min_offer(neg.product, price[1]) THEN <<400, "Minimum offer">>
    ELSE <<0, "pass">>

\* OfferResult without the is_party check of lines 338-339: any user may
\* place a round.
OfferResultAnyUser(neg, user, price) ==
    IF neg.status # OPEN THEN <<400, "Negotiation is not open.">>
    ELSE IF price = <<>> THEN <<400, "price required">>
    ELSE IF ~validate_min_offer(neg.product, price[1]) THEN <<400, "Minimum offer">>
    ELSE <<0, "pass">>

\* offer, lines 335-345: get_object() and the checks on the instance.
OfferResult(neg, user, price) ==
    IF neg.status # OPEN THEN <<400, "Negotiation is not open.">>
    ELSE IF ~is_party(neg, user) THEN <<403, "Not a party to this negotiation.">>
    ELSE IF price = <<>> THEN <<400, "price required">>
    ELSE IF ~validate_min_offer(neg.product, price[1]) THEN <<400, "Minimum offer">>
    ELSE <<0, "pass">>

\* OfferGetObject with strict alternation enforced: the party who placed the
\* latest round is refused.
OfferGetObjectAlternating(w) ==
    /\ Free(w)
    /\ \E user \in Users, n \in NegIds, price \in PriceInputs :
         LET own == rounds[n][Len(rounds[n])].offered_by = user
             res == IF negs[n].status = OPEN /\ own
                    THEN <<400, "Wait for the counter-party.">>
                    ELSE OfferResult(negs[n], user, price)
             r == NewReq("offer", user, n)
         IN /\ res[1] # 0 => Quiet
            /\ res[1] = 0 => nops < MaxOps
            /\ nops' = IF res[1] = 0 THEN nops + 1 ELSE nops
            /\ req' = [req EXCEPT ![w] =
                         IF res[1] = 0
                         THEN [r EXCEPT !.pc = "offer_round", !.price = price[1]]
                         ELSE Done(r, res[1], res[2])]
    /\ UNCHANGED <<negs, rounds, deals, blocks>>

OfferGetObject(w) ==
    /\ Free(w)
    /\ \E user \in Users, n \in NegIds, price \in PriceInputs :
         LET res == OfferResult(negs[n], user, price)
             r == NewReq("offer", user, n)
         IN /\ res[1] # 0 => Quiet
            /\ res[1] = 0 => nops < MaxOps
            /\ nops' = IF res[1] = 0 THEN nops + 1 ELSE nops
            /\ req' = [req EXCEPT ![w] =
                         IF res[1] = 0
                         THEN [r EXCEPT !.pc = "offer_round", !.price = price[1]]
                         ELSE Done(r, res[1], res[2])]
    /\ UNCHANGED <<negs, rounds, deals, blocks>>

\* OfferCreateRound as an update_or_create keyed on the negotiation: the
\* latest round is overwritten.
OfferCreateRoundUpsert(w) ==
    /\ Running(w, "offer_round")
    /\ LET r == req[w]
       IN /\ rounds' = [rounds EXCEPT ![r.neg] =
                          [@ EXCEPT ![Len(@)] = [offered_by |-> r.user,
                                                 price |-> r.price]]]
          /\ req' = [req EXCEPT ![w] = [r EXCEPT !.pc = "offer_save"]]
    /\ UNCHANGED <<negs, deals, blocks, nops>>

\* offer, line 346: OfferRound.objects.create.
OfferCreateRound(w) ==
    /\ Running(w, "offer_round")
    /\ LET r == req[w]
       IN /\ rounds' = [rounds EXCEPT ![r.neg] =
                          Append(@, [offered_by |-> r.user, price |-> r.price])]
          /\ req' = [req EXCEPT ![w] = [r EXCEPT !.pc = "offer_save"]]
    /\ UNCHANGED <<negs, deals, blocks, nops>>

\* OfferSave with the new price also written to the deals made from the
\* negotiation, as if agreed_price followed last_offer_price.
OfferSaveRepricesDeal(w) ==
    /\ Running(w, "offer_save")
    /\ LET r == req[w]
       IN /\ negs' = [negs EXCEPT ![r.neg].last_offer_price = r.price]
          /\ deals' = [d \in 1..Len(deals) |->
                         IF deals[d].from_neg = r.neg
                         THEN [deals[d] EXCEPT !.agreed_price = r.price]
                         ELSE deals[d]]
          /\ \E sink_raises \in BOOLEAN :
               req' = [req EXCEPT ![w] = AfterEvent(r, sink_raises, 200)]
    /\ UNCHANGED <<rounds, blocks, nops>>

\* offer, lines 347-350: save(update_fields=["last_offer_price", "updated_at"]).
OfferSave(w) ==
    /\ Running(w, "offer_save")
    /\ LET r == req[w]
       IN /\ negs' = [negs EXCEPT ![r.neg].last_offer_price = r.price]
          /\ \E sink_raises \in BOOLEAN :
               req' = [req EXCEPT ![w] = AfterEvent(r, sink_raises, 200)]
    /\ UNCHANGED <<rounds, deals, blocks, nops>>

\* A database error in offer's save (line 348): the round of line 346 is
\* already stored, offer has no atomic block.
OfferSaveFail(w) ==
    /\ Running(w, "offer_save")
    /\ req' = [req EXCEPT ![w] = Done(req[w], 500, StorageError)]
    /\ UNCHANGED <<negs, rounds, deals, blocks, nops>>

\* ----------------------------------------------------------------- accept
\* accept, lines 354-356: get_object() and the status check.
AcceptGetObject(w) ==
    /\ Free(w)
    /\ \E user \in Users, n \in NegIds :
         LET r == NewReq("accept", user, n)
             pass == negs[n].status = OPEN
         IN /\ ~pass => Quiet
            /\ pass => nops < MaxOps
            /\ nops' = IF pass THEN nops + 1 ELSE nops
            /\ req' = [req EXCEPT ![w] =
                         IF pass
                         THEN [r EXCEPT !.pc = "accept_round", !.snap = negs[n]]
                         ELSE Refused(r, 400, "Negotiation not open.")]
    /\ UNCHANGED <<negs, rounds, deals, blocks>>

\* neg.rounds.order_by("-created_at").first() over a non-empty history.
LastRound(rs) == rs[Len(rs)]

\* AcceptLastRoundResult with the history read in ascending order: the check
\* is made on the first round.
AcceptFirstRoundResult(rs, user) ==
    IF rs = <<>> THEN <<400, "No offers to accept.">>
    ELSE IF rs[1].offered_by = user THEN <<400, "Counter-party must accept.">>
    ELSE <<0, "pass">>

\* accept, lines 357-361: the latest round and the checks on it.
AcceptLastRoundResult(rs, user) ==
    IF rs = <<>> THEN <<400, "No offers to accept.">>
    ELSE IF LastRound(rs).offered_by = user THEN <<400, "Counter-party must accept.">>
    ELSE <<0, "pass">>

\* The request keeps last_round: its price is the request's price field.
AcceptLastRound(w) ==
    /\ Running(w, "accept_round")
    /\ LET r == req[w]
           res == AcceptLastRoundResult(rounds[r.neg], r.user)
       IN req' = [req EXCEPT ![w] =
                    IF res[1] = 0
                    THEN [r EXCEPT !.pc = "accept_tx",
                                   !.price = LastRound(rounds[r.neg]).price]
                    ELSE Done(r, res[1], res[2])]
    /\ UNCHANGED <<negs, rounds, deals, blocks, nops>>

\* accept, lines 362-370: the instance's fields are those get_object() read.
NewDeal(r) ==
    [product |-> r.snap.product, buyer |-> r.snap.buyer, seller |-> r.snap.seller,
     agreed_price |-> r.snap.last_offer_price, status |-> PENDING,
     from_neg |-> r.neg]

\* accept, lines 384-390: the contact payloads of the response.
AcceptContacts(r) == {r.snap.buyer, r.snap.seller}

\* accept, lines 362-390: the atomic block's commit and the response.
AcceptCommit(w) ==
    /\ Running(w, "accept_tx")
    /\ LET r == req[w]
       IN /\ negs' = [negs EXCEPT ![r.neg].status = ACCEPTED]
          /\ deals' = Append(deals, NewDeal(r))
          /\ \E sink_raises \in BOOLEAN :
               req' = [req EXCEPT ![w] =
                         [AfterEvent(r, sink_raises, 200) EXCEPT
                            !.contacts = IF sink_raises THEN {} ELSE AcceptContacts(r)]]
    /\ UNCHANGED <<rounds, blocks, nops>>

\* A database error inside accept's atomic block: the block rolls back.
AcceptAbort(w) ==
    /\ Running(w, "accept_tx")
    /\ req' = [req EXCEPT ![w] = Done(req[w], 500, StorageError)]
    /\ UNCHANGED <<negs, rounds, deals, blocks, nops>>

\* ----------------------------------------------------------------- reject
\* reject, lines 394-398.
RejectResult(neg, user) ==
    IF ~is_party(neg, user) THEN <<403, "Not a party to this negotiation.">>
    ELSE IF neg.status # OPEN THEN <<400, "Negotiation not open.">>
    ELSE <<0, "pass">>

RejectGetObject(w) ==
    /\ Free(w)
    /\ \E user \in Users, n \in NegIds :
         LET res == RejectResult(negs[n], user)
             r == NewReq("reject", user, n)
         IN /\ res[1] # 0 => Quiet
            /\ res[1] = 0 => nops < MaxOps
            /\ nops' = IF res[1] = 0 THEN nops + 1 ELSE nops
            /\ req' = [req EXCEPT ![w] =
                         IF res[1] = 0 THEN [r EXCEPT !.pc = "reject_save"]
                         ELSE Done(r, res[1], res[2])]
    /\ UNCHANGED <<negs, rounds, deals, blocks>>

\* reject, lines 399-401.
RejectSave(w) ==
    /\ Running(w, "reject_save")
    /\ LET r == req[w]
       IN /\ negs' = [negs EXCEPT ![r.neg].status = REJECTED]
          /\ req' = [req EXCEPT ![w] = Done(r, 200, "ok")]
    /\ UNCHANGED <<rounds, deals, blocks, nops>>

\* ----------------------------------------------------------------- cancel
\* cancel, lines 405-407.
CancelResult(neg, user) ==
    IF user \notin {neg.buyer, neg.seller}
    THEN <<403, "Not a party to this negotiation.">>
    ELSE <<0, "pass">>

CancelGetObject(w) ==
    /\ Free(w)
    /\ \E user \in Users, n \in NegIds :
         LET res == CancelResult(negs[n], user)
             r == NewReq("cancel", user, n)
         IN /\ res[1] # 0 => Quiet
            /\ res[1] = 0 => nops < MaxOps
            /\ nops' = IF res[1] = 0 THEN nops + 1 ELSE nops
            /\ req' = [req EXCEPT ![w] =
                         IF res[1] = 0 THEN [r EXCEPT !.pc = "cancel_save"]
                         ELSE Done(r, res[1], res[2])]
    /\ UNCHANGED <<negs, rounds, deals, blocks>>

\* CancelSave with the deals made from the negotiation deleted along with
\* the cancellation.
CancelSaveDropsDeals(w) ==
    /\ Running(w, "cancel_save")
    /\ LET r == req[w]
       IN /\ negs' = [negs EXCEPT ![r.neg].status = CANCELED]
          /\ deals' = SelectSeq(deals, LAMBDA d : d.from_neg # r.neg)
          /\ req' = [req EXCEPT ![w] = Done(r, 200, "ok")]
    /\ UNCHANGED <<rounds, blocks, nops>>

\* cancel, lines 408-410.
CancelSave(w) ==
    /\ Running(w, "cancel_save")
    /\ LET r == req[w]
       IN /\ negs' = [negs EXCEPT ![r.neg].status = CANCELED]
          /\ req' = [req EXCEPT ![w] = Done(r, 200, "ok")]
    /\ UNCHANGED <<rounds, deals, blocks, nops>>

\* ---------------------------------------------------------- update_status
\* UpdateStatusResult without the seller check of lines 480-484: any user
\* who can see the deal may set its status.
UpdateStatusResultAnyParty(deal, user, new_status) ==
    IF user \notin {deal.buyer, deal.seller} THEN <<404, "Not found.">>
    ELSE IF new_status = NoneVal THEN <<400, "status is required">>
    ELSE IF new_status \notin DealStatus THEN <<400, "Invalid status.">>
    ELSE <<0, "pass">>

\* UpdateStatusResult with a lifecycle enforced: a deal that is completed or
\* canceled takes no further status.
UpdateStatusResultFinalLocked(deal, user, new_status) ==
    IF user \notin {deal.buyer, deal.seller} THEN <<404, "Not found.">>
    ELSE IF user # deal.seller
         THEN <<403, "You are not authorized to update this deal.">>
    ELSE IF new_status = NoneVal THEN <<400, "status is required">>
    ELSE IF new_status \notin DealStatus THEN <<400, "Invalid status.">>
    ELSE IF deal.status \in {"completed", "canceled"}
         THEN <<400, "Invalid status.">>
    ELSE <<0, "pass">>

\* DealViewSet.get_queryset and update_status, lines 478-494.
UpdateStatusResult(deal, user, new_status) ==
    IF user \notin {deal.buyer, deal.seller} THEN <<404, "Not found.">>
    ELSE IF user # deal.seller
         THEN <<403, "You are not authorized to update this deal.">>
    ELSE IF new_status = NoneVal THEN <<400, "status is required">>
    ELSE IF new_status \notin DealStatus THEN <<400, "Invalid status.">>
    ELSE <<0, "pass">>

\* update_status, lines 478-498.  The write stores a value of the request and
\* the checks read fields no request changes, so the handler is one step.
\* The 200 response is the serialized deal: its detail is the stored status;
\* snap.status keeps the status get_object() read.
\* A deal has five statuses whatever the number of updates, so these
\* requests are not counted in nops.
UpdateStatus(w) ==
    /\ Free(w)
    /\ \E user \in Users, d \in DealIds, new_status \in StatusInputs :
         LET res == UpdateStatusResult(deals[d], user, new_status)
             r == NewReq("update_status", user, d)
         IN /\ res[1] # 0 => Quiet
            /\ deals' = IF res[1] = 0
                        THEN [deals EXCEPT ![d].status = new_status]
                        ELSE deals
            /\ req' = [req EXCEPT ![w] =
                         IF res[1] = 0
                         THEN [Done(r, 200, deals'[d].status) EXCEPT
                                 !.snap = [NoSnap EXCEPT !.status = deals[d].status]]
                         ELSE Refused(r, res[1], res[2])]
    /\ UNCHANGED <<negs, rounds, blocks, nops>>

\* ----------------------------------------------------------------- blocks
\* BlockCreate closing the OPEN negotiations between the two users, as if
\* a block ended them.
BlockCreateClosesNegotiations(w) ==
    /\ Free(w)
    /\ nops < MaxOps
    /\ \E b \in BlockInputs \ blocks :
         /\ blocks' = blocks \cup {b}
         /\ negs' = [n \in NegIds |->
                       IF /\ negs[n].status = OPEN
                          /\ {negs[n].seller, negs[n].buyer} = {b[1], b[2]}
                       THEN [negs[n] EXCEPT !.status = CANCELED]
                       ELSE negs[n]]
         /\ req' = [req EXCEPT ![w] = Done(NewReq("block", b[1], 0), 201, "ok")]
    /\ nops' = nops + 1
    /\ UNCHANGED <<rounds, deals>>

\* BlockViewSet.perform_create: the blocker is the requesting user.
BlockCreate(w) ==
    /\ Free(w)
    /\ nops < MaxOps
    /\ \E b \in BlockInputs \ blocks :
         /\ blocks' = blocks \cup {b}
         /\ req' = [req EXCEPT ![w] = Done(NewReq("block", b[1], 0), 201, "ok")]
    /\ nops' = nops + 1
    /\ UNCHANGED <<negs, rounds, deals>>

\* BlockViewSet.destroy over get_queryset: a user deletes a block of their own.
BlockDestroy(w) ==
    /\ Free(w)
    /\ nops < MaxOps
    /\ \E b \in blocks :
         /\ blocks' = blocks \ {b}
         /\ req' = [req EXCEPT ![w] = Done(NewReq("unblock", b[1], 0), 204, "ok")]
    /\ nops' = nops + 1
    /\ UNCHANGED <<negs, rounds, deals>>

\* The response has been sent; the request context is free again.
Return(w) ==
    /\ req[w].pc = "done"
    /\ req' = [req EXCEPT ![w] = IdleReq]
    /\ UNCHANGED <<negs, rounds, deals, blocks, nops>>

Next ==
    \E w \in Workers :
        \/ StartValidate(w)
        \/ StartReadExisting(w)
        \/ StartCommit(w)
        \/ StartAbort(w)
        \/ OfferGetObject(w)
        \/ OfferCreateRound(w)
        \/ OfferSave(w)
        \/ OfferSaveFail(w)
        \/ AcceptGetObject(w)
        \/ AcceptLastRound(w)
        \/ AcceptCommit(w)
        \/ AcceptAbort(w)
        \/ RejectGetObject(w)
        \/ RejectSave(w)
        \/ CancelGetObject(w)
        \/ CancelSave(w)
        \/ UpdateStatus(w)
        \/ BlockCreate(w)
        \/ BlockDestroy(w)
        \/ Return(w)

Spec == Init /\ [][Next]_vars

\* ================================================================ claims
\* Worker w takes the step.
Step(w) == req'[w] # req[w]

\* The deals created from negotiation n, in table ds.
DealsOf(ds, n) == {d \in 1..Len(ds) : ds[d].from_neg = n}

Tables == <<negs, rounds, deals, blocks>>

\* C1: two accept requests racing on one OPEN negotiation create exactly one
\* Deal between them: no negotiation ever has two deals created from it.
C1_ConcurrentAcceptOneDeal ==
    \A n \in NegIds : Cardinality(DealsOf(deals, n)) <= 1

\* C2: terminal states are absorbing: no step changes the status of a
\* negotiation that is ACCEPTED, REJECTED or CANCELED.
C2_TerminalAbsorbing ==
    [][\A n \in NegIds :
          negs[n].status # OPEN => negs'[n].status = negs[n].status]_vars

\* C3: deals and ACCEPTED negotiations correspond one to one: every deal
\* comes from a negotiation that is ACCEPTED, and every ACCEPTED negotiation
\* has exactly one deal.
C3_DealsMatchAccepted ==
    /\ \A d \in DealIds : negs[deals[d].from_neg].status = ACCEPTED
    /\ \A n \in NegIds :
          negs[n].status = ACCEPTED => Cardinality(DealsOf(deals, n)) = 1

\* C4: the step in which an accept succeeds leaves exactly one deal for the
\* negotiation, priced at the negotiation's last_offer_price at that time,
\* and the negotiation ACCEPTED; an accept called on a negotiation that has
\* a deal is refused as not open and creates no deal.
C4_AcceptOnceAtLastOffer ==
    [][\A w \in Workers :
          /\ (req[w].pc = "accept_tx" /\ Step(w) /\ deals' # deals) =>
                LET n == req[w].neg
                IN /\ Cardinality(DealsOf(deals', n)) = 1
                   /\ \A d \in DealsOf(deals', n) :
                         deals'[d].agreed_price = negs[n].last_offer_price
                   /\ negs'[n].status = ACCEPTED
          /\ (req[w].pc = "idle" /\ Step(w) /\ req'[w].op = "accept"
                 /\ DealsOf(deals, req'[w].neg) # {}) =>
                /\ req'[w].pc = "done"
                /\ req'[w].code = 400
                /\ deals' = deals]_vars

\* C5: at most one OPEN negotiation exists for any (product, seller, buyer)
\* triple, in every reachable state.
C5_AtMostOneOpenPerTriple ==
    \A m, n \in NegIds :
        (/\ m # n
         /\ negs[m].product = negs[n].product
         /\ negs[m].seller = negs[n].seller
         /\ negs[m].buyer = negs[n].buyer
         /\ negs[m].status = OPEN) => negs[n].status # OPEN

\* C6: when a start succeeds for a buyer for whom it found an OPEN
\* negotiation on the product with the same seller, afterwards that prior
\* negotiation is CANCELED and the new negotiation is the only OPEN one of
\* the triple.
C6_StartSupersedes ==
    [][\A w \in Workers :
          (req[w].pc = "start_commit" /\ Step(w) /\ negs' # negs
             /\ req[w].existing # 0) =>
             LET r == req[w]
             IN /\ negs'[r.existing].status = CANCELED
                /\ OpenIn(negs', r.product, ProductSeller[r.product], r.user)
                     = {Len(negs')}]_vars

\* C7: when accept finds that the requesting user placed the latest round,
\* the request ends with 400 "Counter-party must accept.", the negotiation
\* is left as it was (OPEN stays OPEN) and no deal is created.
C7_OwnOfferAcceptRefused ==
    [][\A w \in Workers :
          (/\ req[w].pc = "accept_round"
           /\ Step(w)
           /\ rounds[req[w].neg] # <<>>
           /\ LastRound(rounds[req[w].neg]).offered_by = req[w].user) =>
             /\ req'[w].pc = "done"
             /\ req'[w].code = 400
             /\ req'[w].detail = "Counter-party must accept."
             /\ Tables' = Tables]_vars

\* A request of the last offerer, refused, with the negotiation still OPEN.
C7_Witness ==
    \E w \in Workers :
        /\ req[w].pc = "done"
        /\ req[w].op = "accept"
        /\ req[w].detail = "Counter-party must accept."
        /\ negs[req[w].neg].status = OPEN
        /\ LastRound(rounds[req[w].neg]).offered_by = req[w].user
        /\ Len(rounds[req[w].neg]) = 2
        /\ DealsOf(deals, req[w].neg) = {}

\* C8: only the counter-party may accept: a step of an accept request that
\* changes a negotiation or creates a deal is taken for a user who is the
\* negotiation's buyer or seller and did not place the latest round.
C8_OnlyCounterPartyAccepts ==
    [][\A w \in Workers :
          (req[w].op = "accept" /\ Step(w) /\ (negs' # negs \/ deals' # deals)) =>
             /\ is_party(negs[req[w].neg], req[w].user)
             /\ LastRound(rounds[req[w].neg]).offered_by # req[w].user]_vars

\* C9: a response carries contact payloads only when it answers accept, and
\* then only to a requester whose own contact is among them, that is to the
\* buyer or the seller of the negotiation.
C9_ContactsOnlyToParties ==
    \A w \in Workers :
        req[w].contacts # {} =>
            (req[w].op = "accept" /\ req[w].user \in req[w].contacts)

\* C10: a reject or cancel that a party calls on a negotiation that is
\* ACCEPTED, REJECTED or CANCELED is refused with 400 "Negotiation not
\* open." and changes no table.
C10_TerminalRejectCancelRefused ==
    [][\A w \in Workers :
          (/\ req[w].pc = "idle"
           /\ Step(w)
           /\ req'[w].op \in {"reject", "cancel"}
           /\ negs[req'[w].neg].status # OPEN
           /\ req'[w].code # 403) =>
             /\ req'[w].pc = "done"
             /\ req'[w].code = 400
             /\ req'[w].detail = "Negotiation not open."
             /\ Tables' = Tables]_vars

\* The outcome the floor rule prescribes for a price on a product when every
\* other precondition holds.
FloorOutcome(product, price) ==
    IF ProductMinOfferPrice[product] > 0 /\ price < ProductMinOfferPrice[product]
    THEN <<400, "Minimum offer">>
    ELSE <<0, "pass">>

\* C11: the price floor.  In every reachable state, a start on an active
\* product by a user who is not its seller and has no block with the seller,
\* and an offer by a party on an OPEN negotiation, is refused with the
\* below-minimum error when the product's min_offer_price is P > 0 and the
\* price is below P, and passes otherwise (price = P, price > P, and every
\* price when min_offer_price is 0); no stored round and no round about to
\* be stored has a price below its product's floor.
C11_MinOfferFloor ==
    /\ \A user \in Users, product \in Products, price \in PriceInputs \ {<<>>} :
          (/\ ProductIsActive[product]
           /\ ProductSeller[product] # user
           /\ ~is_blocked_between(ProductSeller[product], user)) =>
             StartResult(user, product, price) = FloorOutcome(product, price[1])
    /\ \A n \in NegIds, user \in Users, price \in PriceInputs \ {<<>>} :
          (negs[n].status = OPEN /\ is_party(negs[n], user)) =>
             OfferResult(negs[n], user, price) = FloorOutcome(negs[n].product, price[1])
    /\ \A n \in NegIds : \A i \in 1..Len(rounds[n]) :
          rounds[n][i].price >= ProductMinOfferPrice[negs[n].product]
    /\ \A w \in Workers :
          /\ req[w].pc \in {"start_tx", "start_commit"} =>
                req[w].price >= ProductMinOfferPrice[req[w].product]
          /\ req[w].pc \in {"offer_round", "offer_save"} =>
                req[w].price >= ProductMinOfferPrice[negs[req[w].neg].product]

\* A negotiation started on p1 at exactly its floor, one started on p3 at
\* price 0, an offer above p1's floor stored, and a request just refused for
\* a price below the floor.
C11_Witness ==
    /\ \E n \in NegIds :
          /\ negs[n].product = "p1"
          /\ rounds[n][1].price = ProductMinOfferPrice["p1"]
          /\ Len(rounds[n]) = 2
          /\ rounds[n][2].price > ProductMinOfferPrice["p1"]
    /\ \E n \in NegIds : negs[n].product = "p3" /\ rounds[n][1].price = 0
    /\ \E w \in Workers :
          /\ req[w].pc = "done"
          /\ req[w].op \in {"start", "offer"}
          /\ req[w].detail = "Minimum offer"

BlockedError == <<403, "You cannot negotiate with this user.">>

\* C12: the block gate of start.  In every reachable state, for every user A
\* and every active product whose seller B has a Block record with A in
\* either direction, a start by A on that product is refused with the
\* blocked-counterparty error whatever price it carries (and a refused start
\* writes nothing).
C12_BlockedStartRefused ==
    \A user \in Users, product \in Products, price \in PriceInputs \ {<<>>} :
        (/\ ProductIsActive[product]
         /\ ProductSeller[product] # user
         /\ is_blocked_between(ProductSeller[product], user)) =>
           StartResult(user, product, price) = BlockedError

\* C13: no negotiation with oneself.  In every reachable state every
\* negotiation's buyer differs from its seller, and no start that has passed
\* its checks is made by the seller of its product.
C13_BuyerIsNotSeller ==
    /\ \A n \in NegIds : negs[n].buyer # negs[n].seller
    /\ \A w \in Workers :
          req[w].pc \in {"start_tx", "start_commit"} =>
             req[w].user # ProductSeller[req[w].product]

\* A seller's start on their own product has just been refused, next to a
\* negotiation a buyer started on the seller's product.
C13_Witness ==
    /\ \E w \in Workers :
          /\ req[w].pc = "done"
          /\ req[w].op = "start"
          /\ req[w].detail = "You can't negotiate on your own product."
    /\ \E n \in NegIds : negs[n].seller = "u1" /\ negs[n].buyer # "u1"

\* C14: start's writes are one unit.  Every step of a start request either
\* changes no table, or adds the new OPEN negotiation together with its
\* initial round (the requester's price) and changes nothing else but the
\* status of the OPEN negotiation it found, which becomes CANCELED; and after
\* every step each negotiation has its round history, whose first round is
\* the buyer's.
C14_StartAllOrNothing ==
    [][/\ \A w \in Workers :
            (req[w].op = "start" /\ Step(w)) =>
               \/ Tables' = Tables
               \/ /\ Len(negs') = Len(negs) + 1
                  /\ negs'[Len(negs')].status = OPEN
                  /\ negs'[Len(negs')].buyer = req[w].user
                  /\ negs'[Len(negs')].last_offer_price = req[w].price
                  /\ rounds' = Append(rounds, <<[offered_by |-> req[w].user,
                                                 price |-> req[w].price]>>)
                  /\ \A n \in NegIds :
                        \/ negs'[n] = negs[n]
                        \/ /\ n = req[w].existing
                           /\ negs'[n] = [negs[n] EXCEPT !.status = CANCELED]
                  /\ deals' = deals /\ blocks' = blocks
       /\ Len(rounds') = Len(negs')
       /\ \A n \in 1..Len(negs') :
             rounds'[n] # <<>> /\ rounds'[n][1].offered_by = negs'[n].buyer]_vars

\* A start that had found an OPEN negotiation to supersede failed inside its
\* atomic block: the negotiation it found is still OPEN.
C14_Witness ==
    \E w \in Workers :
        /\ req[w].pc = "done"
        /\ req[w].op = "start"
        /\ req[w].detail = StorageError
        /\ req[w].existing # 0
        /\ negs[req[w].existing].status = OPEN
        /\ Len(negs) = 1

\* The start requests that miss a precondition, in the state at hand.
StartFailsPrecondition(user, product, price) ==
    \/ product = NoneVal
    \/ price = <<>>
    \/ ~ProductIsActive[product]
    \/ ProductSeller[product] = user
    \/ price[1] < ProductMinOfferPrice[product]
    \/ is_blocked_between(ProductSeller[product], user)

\* C15: a start that fails a precondition persists nothing.  A start request
\* goes on to its writes only when it misses no precondition (product and
\* price present, product active, requester not the seller, price not below
\* the floor, no block between the users); otherwise it is refused, and the
\* step that refuses a start leaves the negotiations, rounds, deals and
\* blocks as they were: no OPEN negotiation is canceled by it.
C15_RefusedStartPersistsNothing ==
    [][\A w \in Workers :
          (req[w].pc = "idle" /\ Step(w) /\ req'[w].op = "start") =>
             /\ Tables' = Tables
             /\ \/ /\ req'[w].pc = "start_tx"
                   /\ ~StartFailsPrecondition(req'[w].user, req'[w].product,
                                               <<req'[w].price>>)
                \/ /\ req'[w].pc = "done"
                   /\ req'[w].code \in {400, 403, 404}]_vars

\* A start of the blocked buyer u3 has just been refused, and the OPEN
\* negotiation u3 started before the block is still OPEN.
C15_Witness ==
    /\ \E w \in Workers :
          /\ req[w].pc = "done"
          /\ req[w].op = "start"
          /\ req[w].code = 403
    /\ \E n \in NegIds : negs[n].buyer = "u3" /\ negs[n].status = OPEN

\* C16: only the seller changes a deal's status.  In every reachable state
\* an update-status request of a deal's buyer is refused with 403 whatever
\* status it names; the step that refuses an update-status request leaves
\* the deals as they were; and every step that changes the status of a deal
\* is the step of an update-status request of that deal's seller.
C16_OnlySellerChangesDealStatus ==
    [][/\ \A d \in DealIds, t \in StatusInputs :
            UpdateStatusResult(deals[d], deals[d].buyer, t)[1] = 403
       /\ \A w \in Workers :
            (/\ req[w].pc = "idle"
             /\ Step(w)
             /\ req'[w].op = "update_status"
             /\ req'[w].code # 200) => deals' = deals
       /\ \A d \in DealIds :
            deals'[d].status # deals[d].status =>
               \E w \in Workers :
                  /\ Step(w)
                  /\ req'[w].op = "update_status"
                  /\ req'[w].neg = d
                  /\ req'[w].code = 200
                  /\ req'[w].user = deals[d].seller]_vars

\* The seller has set a deal to "shipped", and a later update-status request
\* on that deal has just been refused as unauthorized.
C16_Witness ==
    \E w \in Workers :
        /\ req[w].pc = "done"
        /\ req[w].op = "update_status"
        /\ req[w].code = 403
        /\ deals[req[w].neg].status = "shipped"

\* C17: update_status validates membership only.  In every reachable state,
\* whatever the deal's current status, the seller's update to any of the
\* five statuses passes, and a missing target or a target outside the five
\* is refused with 400; the step of an update the seller's request passes
\* stores the status the 200 response reports, one of the five, and changes
\* nothing else of the deal; the step that refuses an update changes no deal.
C17_StatusMembershipOnly ==
    [][/\ \A d \in DealIds, t \in StatusInputs :
            UpdateStatusResult(deals[d], deals[d].seller, t)[1] =
               (IF t \in DealStatus THEN 0 ELSE 400)
       /\ \A w \in Workers :
            (req[w].pc = "idle" /\ Step(w) /\ req'[w].op = "update_status") =>
               LET d == req'[w].neg
               IN IF req'[w].code = 200
                  THEN /\ req'[w].detail \in DealStatus
                       /\ deals' = [deals EXCEPT ![d].status = req'[w].detail]
                  ELSE deals' = deals]_vars

\* The seller's update of a deal from "completed" back to "pending" has just
\* been answered 200.
C17_Witness ==
    \E w \in Workers :
        /\ req[w].pc = "done"
        /\ req[w].op = "update_status"
        /\ req[w].code = 200
        /\ req[w].snap.status = "completed"
        /\ req[w].detail = PENDING
        /\ deals[req[w].neg].status = PENDING

IsPrefix(s, t) == Len(s) <= Len(t) /\ SubSeq(t, 1, Len(s)) = s

\* C18: the round history is append-only and loses no offer.  In every step,
\* the history of every negotiation is kept as a prefix of its new history
\* (no round is modified or removed), and the step in which an offer stores
\* its round appends exactly that round (the requester and the request's
\* price) to the history as it is at that moment, whatever other offer
\* runs on the same negotiation.
C18_RoundsAppendOnly ==
    [][/\ \A n \in NegIds : IsPrefix(rounds[n], rounds'[n])
       /\ \A w \in Workers :
            (req[w].pc = "offer_round" /\ Step(w)) =>
               rounds'[req[w].neg] =
                  Append(rounds[req[w].neg],
                         [offered_by |-> req[w].user, price |-> req[w].price])]_vars

\* Two offers on one negotiation ran together: both have stored their round
\* and neither has saved last_offer_price yet; the history holds the initial
\* round and both offers' rounds.
C18_Witness ==
    \E n \in NegIds :
        /\ \A w \in Workers : req[w].pc = "offer_save" /\ req[w].neg = n
        /\ Len(rounds[n]) = 3
        /\ \E i, j \in 2..3 :
              /\ i # j
              /\ rounds[n][i] = [offered_by |-> req["w1"].user, price |-> req["w1"].price]
              /\ rounds[n][j] = [offered_by |-> req["w2"].user, price |-> req["w2"].price]

\* C19: last_offer_price follows the round history.  In every reachable
\* state in which no start and no offer request is between its first
\* statement and its response, every negotiation's last_offer_price is the
\* price of the last round of its history.
C19_LastOfferPriceIsLastRound ==
    (\A w \in Workers :
        req[w].op \in {"start", "offer"} => req[w].pc \in {"idle", "done"}) =>
       \A n \in NegIds : negs[n].last_offer_price = LastRound(rounds[n]).price

\* C20: a failure of the analytics sink does not change a transition's
\* outcome.  The step in which a start, an offer or an accept makes its last
\* write without a database error ends the request with its success
\* response (201 for start, 200 for offer and accept), whether record_event
\* raises or not.
C20_SinkFailureSwallowed ==
    [][\A w \in Workers :
          (/\ req[w].pc \in {"start_commit", "offer_save", "accept_tx"}
           /\ Step(w)
           /\ req'[w].detail # StorageError) =>
             /\ req'[w].pc = "done"
             /\ req'[w].code = (IF req[w].op = "start" THEN 201 ELSE 200)]_vars

\* C21: the block gate applies only at start.  The step that creates a Block
\* changes no negotiation, round or deal.  While a Block exists between the
\* buyer and the seller of an OPEN negotiation, an offer of a party passes
\* or is refused by the price rules alone, a reject of a party passes, and
\* no offer, accept or reject is answered with the blocked-counterparty
\* error.
C21_BlockGateOnlyAtStart ==
    [][/\ blocks' # blocks => <<negs, rounds, deals>>' = <<negs, rounds, deals>>
       /\ blocks = {} \/
            \A n \in NegIds :
               (negs[n].status = OPEN
                  /\ is_blocked_between(negs[n].seller, negs[n].buyer)) =>
                  \A user \in {negs[n].buyer, negs[n].seller} :
                     /\ RejectResult(negs[n], user) = <<0, "pass">>
                     /\ \A price \in PriceInputs \ {<<>>} :
                           OfferResult(negs[n], user, price) =
                              FloorOutcome(negs[n].product, price[1])
       /\ \A w \in Workers :
            (Step(w) /\ req'[w].op \in {"offer", "accept", "reject"}) =>
               req'[w].detail # BlockedError[2]]_vars

\* u3 started a negotiation with u1, a Block between u1 and u3 exists, and
\* an offer on that negotiation has been answered 200 and stored its round.
C21_Witness ==
    \E w \in Workers :
        /\ req[w].pc = "done"
        /\ req[w].op = "offer"
        /\ req[w].code = 200
        /\ negs[req[w].neg].buyer = "u3"
        /\ negs[req[w].neg].status = OPEN
        /\ Len(rounds[req[w].neg]) = 2
        /\ blocks # {}

\* C22: a deal's terms are fixed at creation.  No step removes a deal, and
\* no step changes the product, buyer, seller or agreed_price of a deal
\* that exists: a step changes at most its status.
C22_DealTermsImmutable ==
    [][/\ Len(deals') >= Len(deals)
       /\ \A d \in DealIds :
             deals'[d] = [deals[d] EXCEPT !.status = deals'[d].status]]_vars

\* A deal whose negotiation received a later price and whose status the
\* seller has updated: the deal still carries the price agreed at accept.
C22_Witness ==
    \E d \in DealIds :
        /\ deals[d].status = "shipped"
        /\ negs[deals[d].from_neg].last_offer_price # deals[d].agreed_price
        /\ deals[d].agreed_price = rounds[deals[d].from_neg][1].price
        /\ Len(rounds[deals[d].from_neg]) = 2

\* C23: the price of a deal is the price accept checked.  The step in which
\* an accept creates its deal gives it the price of the round the accept
\* checked as the latest (a round of the other party), and that price is
\* the price of the last round of the history at that moment.
C23_DealPriceIsCheckedRoundPrice ==
    [][\A w \in Workers :
          (req[w].pc = "accept_tx" /\ Step(w) /\ deals' # deals) =>
             /\ deals'[Len(deals')].agreed_price = req[w].price
             /\ deals'[Len(deals')].agreed_price =
                   LastRound(rounds[req[w].neg]).price]_vars

\* C24: rounds accumulate only while the negotiation is open.  No step
\* appends a round to, or changes last_offer_price of, a negotiation whose
\* status is accepted, rejected or canceled.
C24_NoRoundAfterClose ==
    [][\A n \in NegIds :
          negs[n].status \in {ACCEPTED, REJECTED, CANCELED} =>
             /\ rounds'[n] = rounds[n]
             /\ negs'[n].last_offer_price = negs[n].last_offer_price]_vars

\* C25: a stranger is refused as not a party.  An offer, reject or cancel
\* sent by a user who is neither the buyer nor the seller of the negotiation
\* is answered 403 "Not a party to this negotiation." whatever the status of
\* the negotiation, and the negotiation and its rounds stay as they were.
C25_StrangerRefusedAsNotParty ==
    [][\A w \in Workers :
          (/\ req[w].pc = "idle"
           /\ req'[w].op \in {"offer", "reject", "cancel"}
           /\ ~is_party(negs[req'[w].neg], req'[w].user)) =>
             /\ req'[w].pc = "done"
             /\ req'[w].code = 403
             /\ req'[w].detail = "Not a party to this negotiation."
             /\ negs' = negs
             /\ rounds' = rounds]_vars

\* C26: every round is a party's.  In every reachable state the offered_by
\* of every OfferRound is the buyer or the seller of its negotiation.
C26_RoundsOfferedByParties ==
    \A n \in NegIds :
       \A i \in 1..Len(rounds[n]) :
          rounds[n][i].offered_by \in {negs[n].buyer, negs[n].seller}

\* Both parties have placed a round on one negotiation: the buyer's from
\* start, the seller's from offer.
C26_Witness ==
    \E n \in NegIds :
       /\ \E i \in 1..Len(rounds[n]) : rounds[n][i].offered_by = negs[n].buyer
       /\ \E i \in 1..Len(rounds[n]) : rounds[n][i].offered_by = negs[n].seller

\* C27: a negotiation is never without rounds.  After every step each
\* negotiation has at least one round, its first round is its buyer's and is
\* the round it had before the step; the first round of a negotiation a
\* start has just created carries the price given to that start; and no
\* accept is answered "No offers to accept.".
C27_FirstRoundIsStartOffer ==
    [][/\ \A n \in 1..Len(negs') :
             /\ Len(rounds'[n]) >= 1
             /\ rounds'[n][1].offered_by = negs'[n].buyer
             /\ n \in NegIds => rounds'[n][1] = rounds[n][1]
       /\ \A w \in Workers :
             (req[w].pc = "start_commit" /\ Step(w) /\ Len(negs') > Len(negs)) =>
                rounds'[Len(negs')][1].price = req[w].price
       /\ \A w \in Workers : req'[w].detail # "No offers to accept."]_vars

\* An accept has passed its latest-round check on a negotiation whose price
\* has moved since start: the first round is no longer the latest.
C27_Witness ==
    \E w \in Workers :
        /\ req[w].pc = "accept_tx"
        /\ Len(rounds[req[w].neg]) >= 2
        /\ rounds[req[w].neg][1].price # negs[req[w].neg].last_offer_price

\* The handler of the request worker w is serving in this step.
StepOp(w) == IF req[w].pc = "idle" THEN req'[w].op ELSE req[w].op

\* C28: deals come from accept alone.  No step removes a deal; a step of a
\* start, offer, reject, cancel or block request leaves the deals as they
\* are and a step of update-status changes at most a status; a step that
\* adds a deal is the commit of an accept and adds exactly one deal, whose
\* status is pending and whose product, buyer and seller are those of the
\* negotiation the accept has just marked accepted; and every accept
\* answered 200 has added its deal in that step.
C28_DealsOnlyFromAccept ==
    [][\A w \in Workers :
          Step(w) =>
             /\ Len(deals') >= Len(deals)
             /\ \A d \in 1..Len(deals) :
                   deals'[d] = [deals[d] EXCEPT !.status = deals'[d].status]
             /\ StepOp(w) # "update_status" =>
                   \A d \in 1..Len(deals) : deals'[d] = deals[d]
             /\ Len(deals') # Len(deals) =>
                   /\ StepOp(w) = "accept"
                   /\ Len(deals') = Len(deals) + 1
                   /\ LET deal == deals'[Len(deals')]
                          neg == negs'[req[w].neg]
                      IN /\ deal.status = PENDING
                         /\ deal.from_neg = req[w].neg
                         /\ deal.product = neg.product
                         /\ deal.buyer = neg.buyer
                         /\ deal.seller = neg.seller
                         /\ neg.status = ACCEPTED
             /\ (StepOp(w) = "accept" /\ req'[w].code = 200) =>
                   Len(deals') = Len(deals) + 1]_vars

\* An accept has been answered 200 and the pending deal it made is the
\* newest of the table.
C28_Witness ==
    \E w \in Workers :
        /\ req[w].pc = "done"
        /\ req[w].op = "accept"
        /\ req[w].code = 200
        /\ Len(deals) >= 1
        /\ deals[Len(deals)].from_neg = req[w].neg
        /\ deals[Len(deals)].status = PENDING

\* C29: an OPEN negotiation stays OPEN until an explicit action.  A step in
\* which the status of a negotiation leaves OPEN is a step of an accept, a
\* reject or a cancel on that negotiation, which makes it accepted, rejected
\* or canceled respectively, or a step of a start by its buyer on its
\* product and seller, which makes it canceled.  A step of any other request
\* (an offer, a request on another negotiation, a block, a deal status
\* update, a response being sent) leaves every OPEN negotiation OPEN.
C29_OpenUntilExplicitAction ==
    [][\A n \in NegIds :
          (negs[n].status = OPEN /\ negs'[n].status # OPEN) =>
             \E w \in Workers :
                /\ Step(w)
                /\ \/ /\ StepOp(w) = "accept" /\ req[w].neg = n
                      /\ negs'[n].status = ACCEPTED
                   \/ /\ StepOp(w) = "reject" /\ req[w].neg = n
                      /\ negs'[n].status = REJECTED
                   \/ /\ StepOp(w) = "cancel" /\ req[w].neg = n
                      /\ negs'[n].status = CANCELED
                   \/ /\ StepOp(w) = "start"
                      /\ req[w].user = negs[n].buyer
                      /\ req[w].product = negs[n].product
                      /\ ProductSeller[req[w].product] = negs[n].seller
                      /\ negs'[n].status = CANCELED]_vars

\* A negotiation is still OPEN after a counter-offer was placed on it and a
\* block was created between its two parties.
C29_Witness ==
    \E n \in NegIds :
        /\ negs[n].status = OPEN
        /\ Len(rounds[n]) >= 2
        /\ is_blocked_between(negs[n].seller, negs[n].buyer)

\* C30: of an accept and a reject racing on one negotiation exactly one
\* takes effect.  A reject writes its status only on a negotiation that no
\* accept has accepted, an accept writes its deal only on a negotiation that
\* no reject has rejected, and after every step a rejected negotiation has
\* no deal.
C30_AcceptXorReject ==
    [][/\ \A w \in Workers :
             Step(w) =>
                /\ req[w].pc = "reject_save" =>
                      /\ negs[req[w].neg].status # ACCEPTED
                      /\ DealsOf(deals, req[w].neg) = {}
                /\ (req[w].pc = "accept_tx" /\ deals' # deals) =>
                      negs[req[w].neg].status # REJECTED
       /\ \A n \in NegIds :
             negs'[n].status = REJECTED => DealsOf(deals', n) = {}]_vars

\* C31: start's supersession touches only the caller's own triple.  In the
\* step in which a start by buyer B on product P commits, every negotiation
\* whose row changes was, before the step, an OPEN negotiation of B on P
\* with P's seller, and the change is its status becoming canceled; every
\* other negotiation, every negotiation that was not OPEN, the round
\* histories of the existing negotiations and all deals are as before.
C31_StartTouchesOwnTripleOnly ==
    [][\A w \in Workers :
          (req[w].pc = "start_commit" /\ Step(w) /\ negs' # negs) =>
             /\ \A n \in NegIds :
                   /\ rounds'[n] = rounds[n]
                   /\ negs'[n] # negs[n] =>
                         /\ negs[n].status = OPEN
                         /\ negs[n].buyer = req[w].user
                         /\ negs[n].product = req[w].product
                         /\ negs[n].seller = ProductSeller[req[w].product]
                         /\ negs'[n] = [negs[n] EXCEPT !.status = CANCELED]
             /\ deals' = deals]_vars

\* C32: offers need not alternate.  An offer sent on an OPEN negotiation by
\* the party who placed its latest round is refused for its price alone
\* (missing or under the minimum) and otherwise goes on; its round step
\* appends a round by that party at the offered price, and when it is
\* answered 200 last_offer_price is the offered price.  When accept checks a
\* negotiation whose two latest rounds are by the same party, that party is
\* refused with "Counter-party must accept." and nothing is written, and
\* any other caller passes the check.
C32_OffersNeedNotAlternate ==
    [][\A w \in Workers :
          Step(w) =>
             /\ (/\ req[w].pc = "idle"
                 /\ req'[w].op = "offer"
                 /\ negs[req'[w].neg].status = OPEN
                 /\ LastRound(rounds[req'[w].neg]).offered_by = req'[w].user) =>
                   \/ req'[w].pc = "offer_round"
                   \/ /\ req'[w].code = 400
                      /\ req'[w].detail \in {"price required", "Minimum offer"}
             /\ (/\ req[w].pc = "offer_round"
                 /\ LastRound(rounds[req[w].neg]).offered_by = req[w].user) =>
                   rounds'[req[w].neg] =
                      Append(rounds[req[w].neg],
                             [offered_by |-> req[w].user, price |-> req[w].price])
             /\ (req[w].pc = "offer_save" /\ req'[w].code = 200) =>
                   negs'[req[w].neg].last_offer_price = req[w].price
             /\ (/\ req[w].pc = "accept_round"
                 /\ Len(rounds[req[w].neg]) >= 2
                 /\ rounds[req[w].neg][Len(rounds[req[w].neg]) - 1].offered_by =
                       LastRound(rounds[req[w].neg]).offered_by) =>
                   IF LastRound(rounds[req[w].neg]).offered_by = req[w].user
                   THEN /\ req'[w].code = 400
                        /\ req'[w].detail = "Counter-party must accept."
                        /\ Tables' = Tables
                   ELSE req'[w].pc = "accept_tx"]_vars

\* The buyer has followed their opening round with a second offer at
\* another price, last_offer_price is that price, and their accept has been
\* refused.
C32_Witness ==
    \E w \in Workers :
        LET n == req[w].neg
        IN /\ req[w].pc = "done"
           /\ req[w].op = "accept"
           /\ req[w].detail = "Counter-party must accept."
           /\ Len(rounds[n]) = 2
           /\ rounds[n][1].offered_by = req[w].user
           /\ rounds[n][2].offered_by = req[w].user
           /\ rounds[n][2].price # rounds[n][1].price
           /\ negs[n].last_offer_price = rounds[n][2].price
           /\ negs[n].status = OPEN
====
